---- MODULE Spec2Model ----
(***************************************************************************)
(* git-migrate: the migration pipeline of ref.go.  main() validates the    *)
(* configuration, resolves a source and a target ForgeClient with          *)
(* getForgeClient, calls FetchRepos once on the source and then calls      *)
(* MigrateRepo on the target for every fetched repository, logging one     *)
(* line per repository.                                                    *)
(*                                                                         *)
(* ref.go ends at line 137, inside GitHubClient.FetchRepos, right after    *)
(* the first GET has been sent.  validateConfig, the rest of FetchRepos    *)
(* (decoding, paging), the GitLab and Gitea adapters and every MigrateRepo *)
(* are not in the source; they are modelled from spec.md sections 4.1, 4.2,*)
(* 5 and 7 and are marked as such where they are defined.                  *)
(***************************************************************************)
EXTENDS Integers, Sequences, FiniteSets, TLC

\* ------------------------------------------------------------------ bounds

\* Longest repository listing of a source account under Spec.
MaxRepos == 3

\* Longest repository listing of a source account under SpecPaged.
MaxPagedRepos == 5

\* Items per page of the list endpoint.  The code asks for per_page=200
\* (ref.go:120); the model scales the page down, keeping "full page" and
\* "short page" distinct.
PageSize == 2

\* ------------------------------------------------------------------ values

\* Go's nil (no adapter, no error).
Nil == "nil"

\* A local variable of main that has not been assigned yet.
Unset == "unset"

\* Values of SOURCE_TYPE / TARGET_TYPE: the four kinds of the enumeration,
\* the empty string, a differently-cased spelling and an unknown forge.
Kinds == {"github", "gitlab", "gitea", "forgejo", "", "GitHub"}

\* Values of a credential: absent or present.
Tokens == {"", "tok"}

\* type Config (the fields main's control flow and validation read).
Configs ==
    [SourceType : Kinds, SourceToken : Tokens,
     TargetType : Kinds, TargetToken : Tokens]

\* type GitHubRepo: the records a list endpoint can report.  One record has
\* no "name" and one has no "clone_url"; encoding/json leaves such a field
\* at the empty string.
ApiRecords ==
    { [name |-> "repoA", html_url |-> "h/repoA", clone_url |-> "c/repoA"],
      [name |-> "repoB", html_url |-> "h/repoB", clone_url |-> "c/repoB"],
      [name |-> "repoC", html_url |-> "h/repoC", clone_url |-> "c/repoC"],
      [name |-> "",      html_url |-> "h/anon",  clone_url |-> "c/anon"],
      [name |-> "repoU", html_url |-> "h/repoU", clone_url |-> ""] }

\* HTTP statuses the target's create/migrate endpoint answers with.
Statuses == {201, 409, 503}

\* Listings of an account: sequences of distinct records, at most n long
\* (spec.md section 3: names are unique within one fetch result).
RECURSIVE Listings(_)
Listings(n) ==
    IF n = 0 THEN { <<>> }
    ELSE LET shorter == Listings(n - 1)
             longest == { t \in shorter : Len(t) = n - 1 }
             fresh   == { q \in longest \X ApiRecords :
                            \A i \in 1..Len(q[1]) : q[1][i] # q[2] }
         IN  shorter \cup { Append(q[1], q[2]) : q \in fresh }

\* ------------------------------------------------------------------- state

VARIABLES
    config,        \* main's config (immutable after construction)
    remote,        \* the source forge: the account's listing, in API order
    pc,            \* where main is
    fatal,         \* the log.Fatalf that ended the run, or Nil
    sourceClient,  \* main's sourceClient
    targetClient,  \* main's targetClient
    fetchCalls,    \* number of FetchRepos calls made by main
    fetchErr,      \* the error FetchRepos returned, or Nil
    page,          \* FetchRepos: the page being requested
    acc,           \* FetchRepos: the repositories decoded so far
    repos,         \* main's repos
    idx,           \* main's position in "for _, repo := range repos"
    net,           \* the outbound HTTP call: idle, pending or stalled
    requests,      \* every HTTP request sent so far, in order
    migrateCalls,  \* the repositories passed to MigrateRepo, in order
    migrateErrs,   \* what each MigrateRepo call returned, in order
    outcomes       \* the per-repository lines main has logged, in order

vars ==
    << config, remote, pc, fatal, sourceClient, targetClient, fetchCalls,
       fetchErr, page, acc, repos, idx, net, requests, migrateCalls,
       migrateErrs, outcomes >>

\* --------------------------------------------------------- pure functions

\* Mutant of getForgeClient: the kind is matched without regard to case.
getForgeClient_IgnoreCase(forgeType) ==
    CASE forgeType \in {"github", "GitHub"}   -> "GitHubClient"
      [] forgeType = "gitlab"                 -> "GitLabClient"
      [] forgeType \in {"gitea", "forgejo"}   -> "GiteaClient"
      [] OTHER                                -> Nil

\* func getForgeClient(forgeType string) ForgeClient
getForgeClient(forgeType) ==
    CASE forgeType = "github"                 -> "GitHubClient"
      [] forgeType = "gitlab"                 -> "GitLabClient"
      [] forgeType \in {"gitea", "forgejo"}   -> "GiteaClient"
      [] OTHER                                -> Nil

\* validateConfig (not in the source; spec.md 4.2: "required credentials
\* present for both source and target").  The other half of validation,
\* "kinds resolvable", is main's two nil checks after getForgeClient.
validateConfig(c) ==
    IF c.SourceToken = "" \/ c.TargetToken = ""
    THEN "missing credentials"
    ELSE Nil

\* client := &http.Client{}: the Timeout field is left at its zero value,
\* and a Timeout of zero means no timeout.
GitHubClientTimeout == 0

\* Whether a list request of the adapter is abandoned when the forge does
\* not answer.  GitHub: the client of ref.go:131.  GitLab and Gitea are not
\* in the source (spec.md 5: every outbound call carries a timeout).
FetchHasTimeout(client) ==
    IF client = "GitHubClient" THEN GitHubClientTimeout > 0 ELSE TRUE

\* Whether a migrate request is abandoned when the forge does not answer
\* (no MigrateRepo is in the source; spec.md 5).
MigrateHasTimeout(client) == TRUE

\* The list request: GET .../repos?per_page=..&type=all with no page
\* parameter for the first page; later pages are asked for by number.
ListRequest(client, p) ==
    [op |-> "GET", client |-> client, per_page |-> PageSize, page |-> p]

\* The create/migrate request of MigrateRepo (spec.md 4.1).
MigrateRequest(client, repo) ==
    [op |-> "POST", client |-> client,
     repo_name |-> repo.Name, clone_addr |-> repo.CloneURL]

Min(a, b) == IF a < b THEN a ELSE b

\* The source forge: page p of a listing, PageSize records per page.
ListPage(listing, p) ==
    SubSeq(listing, (p - 1) * PageSize + 1, Min(p * PageSize, Len(listing)))

\* One API record mapped to a Repository (spec.md 4.1; GitHubRepo has no
\* ssh field, so SSHURL stays empty).
ToRepository(r) ==
    [Name |-> r.name, CloneURL |-> r.clone_url, SSHURL |-> ""]

\* The decoded response body, record by record.
Decode(body) == [i \in 1..Len(body) |-> ToRepository(body[i])]

\* Mutant of MorePages: FetchRepos returns after the first page.
MorePages_Never(body) == FALSE

\* FetchRepos asks for another page after a full one (spec.md 4.1: "keep
\* requesting until a page returns fewer items than the requested page
\* size").
MorePages(body) == Len(body) = PageSize

\* The error MigrateRepo returns for the target's answer (spec.md 4.1, 7).
MigrateError(status) ==
    CASE status = 201 -> Nil
      [] status = 409 -> "ConflictError"
      [] status = 503 -> "TransientError"
      [] OTHER        -> "MalformedRequestError"

\* ----------------------------------------------------------------- actions

\* log.Fatalf(msg): the process exits.
Fatalf(msg) == pc' = "Fatal" /\ fatal' = msg

\* main: if err := validateConfig(config); err != nil { log.Fatalf }
ValidateConfigStep ==
    /\ pc = "Start"
    /\ IF validateConfig(config) # Nil
       THEN Fatalf("Invalid configuration")
       ELSE pc' = "Validated" /\ fatal' = fatal
    /\ UNCHANGED << config, remote, sourceClient, targetClient, fetchCalls,
                    fetchErr, page, acc, repos, idx, net, requests,
                    migrateCalls, migrateErrs, outcomes >>

\* main: sourceClient := getForgeClient(config.SourceType); nil is fatal.
GetSourceClient ==
    /\ pc = "Validated"
    /\ sourceClient' = getForgeClient(config.SourceType)
    /\ IF sourceClient' = Nil
       THEN Fatalf("Unsupported source forge type")
       ELSE pc' = "SourceResolved" /\ fatal' = fatal
    /\ UNCHANGED << config, remote, targetClient, fetchCalls, fetchErr, page,
                    acc, repos, idx, net, requests, migrateCalls,
                    migrateErrs, outcomes >>

\* Mutant of GetTargetClient: the nil check on targetClient is missing.
GetTargetClient_Unchecked ==
    /\ pc = "SourceResolved"
    /\ targetClient' = getForgeClient(config.TargetType)
    /\ pc' = "Resolved" /\ fatal' = fatal
    /\ UNCHANGED << config, remote, sourceClient, fetchCalls, fetchErr, page,
                    acc, repos, idx, net, requests, migrateCalls,
                    migrateErrs, outcomes >>

\* main: targetClient := getForgeClient(config.TargetType); nil is fatal.
GetTargetClient ==
    /\ pc = "SourceResolved"
    /\ targetClient' = getForgeClient(config.TargetType)
    /\ IF targetClient' = Nil
       THEN Fatalf("Unsupported target forge type")
       ELSE pc' = "Resolved" /\ fatal' = fatal
    /\ UNCHANGED << config, remote, sourceClient, fetchCalls, fetchErr, page,
                    acc, repos, idx, net, requests, migrateCalls,
                    migrateErrs, outcomes >>

\* main calls sourceClient.FetchRepos(config); FetchRepos builds the request
\* and sends it (client.Do), then waits for the forge.
FetchReposCall ==
    /\ pc = "Resolved"
    /\ fetchCalls' = fetchCalls + 1
    /\ page' = 1
    /\ requests' = Append(requests, ListRequest(sourceClient, 1))
    /\ net' = "pending"
    /\ pc' = "Fetching"
    /\ UNCHANGED << config, remote, fatal, sourceClient, targetClient,
                    fetchErr, acc, repos, idx, migrateCalls, migrateErrs,
                    outcomes >>

\* Mutant of FetchReturn: main does not look at err and goes on with the
\* list it got.
FetchReturn_ErrorIgnored(list, err) ==
    /\ fetchErr' = err
    /\ net' = "idle"
    /\ repos' = list
    /\ pc' = IF list = << >> THEN "Done" ELSE "Migrating"
    /\ fatal' = fatal

\* FetchRepos returns (list, err) to main: an error is fatal, otherwise main
\* prints the count and enters the loop over repos.
FetchReturn(list, err) ==
    /\ fetchErr' = err
    /\ net' = "idle"
    /\ IF err # Nil
       THEN Fatalf("Failed to fetch repos") /\ repos' = repos
       ELSE /\ repos' = list
            /\ pc' = IF list = << >> THEN "Done" ELSE "Migrating"
            /\ fatal' = fatal

\* The source forge answers 200 with the requested page; FetchRepos decodes
\* it and either asks for the next page or returns everything it has.
ForgeAnswersList ==
    /\ pc = "Fetching" /\ net = "pending"
    /\ LET body == ListPage(remote, page)
           got  == acc \o Decode(body)
       IN  /\ acc' = got
           /\ IF MorePages(body)
              THEN /\ page' = page + 1
                   /\ requests' =
                        Append(requests, ListRequest(sourceClient, page + 1))
                   /\ UNCHANGED << pc, fatal, fetchErr, repos, net >>
              ELSE /\ FetchReturn(got, Nil)
                   /\ UNCHANGED << page, requests >>
    /\ UNCHANGED << config, remote, sourceClient, targetClient, fetchCalls,
                    idx, migrateCalls, migrateErrs, outcomes >>

\* resp, err := client.Do(req); if err != nil { return nil, err }
FetchTransportError ==
    /\ pc = "Fetching" /\ net = "pending"
    /\ FetchReturn(<< >>, "transport error")
    /\ UNCHANGED << config, remote, sourceClient, targetClient, fetchCalls,
                    page, acc, idx, requests, migrateCalls, migrateErrs,
                    outcomes >>

\* The source forge answers with a non-2xx status or an undecodable body;
\* FetchRepos fails (spec.md 4.1, error conditions).
ForgeAnswersListError ==
    /\ pc = "Fetching" /\ net = "pending"
    /\ FetchReturn(<< >>, "bad response")
    /\ UNCHANGED << config, remote, sourceClient, targetClient, fetchCalls,
                    page, acc, idx, requests, migrateCalls, migrateErrs,
                    outcomes >>

\* A forge accepts the connection and never answers the request.
ForgeStalls ==
    /\ pc \in {"Fetching", "Migrating"} /\ net = "pending"
    /\ net' = "stalled"
    /\ UNCHANGED << config, remote, pc, fatal, sourceClient, targetClient,
                    fetchCalls, fetchErr, page, acc, repos, idx, requests,
                    migrateCalls, migrateErrs, outcomes >>

\* The list request's timeout fires, if the client has one: client.Do
\* returns an error and FetchRepos fails.
FetchTimeout ==
    /\ pc = "Fetching" /\ net = "stalled"
    /\ FetchHasTimeout(sourceClient)
    /\ FetchReturn(<< >>, "timeout")
    /\ UNCHANGED << config, remote, sourceClient, targetClient, fetchCalls,
                    page, acc, idx, requests, migrateCalls, migrateErrs,
                    outcomes >>

\* Mutant of NextRepo: the loop walks repos from the end.
NextRepo_Reversed == repos[Len(repos) - idx + 1]

\* for _, repo := range repos: the repository of this iteration.
NextRepo == repos[idx]

\* main: targetClient.MigrateRepo(config, repo); MigrateRepo sends the
\* create/migrate request and waits for the forge.
MigrateRepoCall ==
    /\ pc = "Migrating" /\ net = "idle"
    /\ migrateCalls' = Append(migrateCalls, NextRepo)
    /\ requests' = Append(requests, MigrateRequest(targetClient, NextRepo))
    /\ net' = "pending"
    /\ UNCHANGED << config, remote, pc, fatal, sourceClient, targetClient,
                    fetchCalls, fetchErr, page, acc, repos, idx, migrateErrs,
                    outcomes >>

\* Mutant of LogOutcome: the loop is left at the first failed migration.
LogOutcome_BreakOnError(err) ==
    /\ outcomes' = Append(outcomes, [name |-> repos[idx].Name, ok |-> err = Nil])
    /\ idx' = idx + 1
    /\ pc' = IF idx = Len(repos) \/ err # Nil THEN "Done" ELSE "Migrating"

\* Mutant of LogOutcome: a failed migration is not logged.
LogOutcome_FailureDropped(err) ==
    /\ outcomes' = IF err = Nil
                   THEN Append(outcomes, [name |-> repos[idx].Name, ok |-> TRUE])
                   ELSE outcomes
    /\ idx' = idx + 1
    /\ pc' = IF idx = Len(repos) THEN "Done" ELSE "Migrating"

\* main: if err != nil { log.Printf("Failed to migrate ...") } else
\* { fmt.Printf("Successfully migrated ...") }, then the next iteration, or
\* the end of main after the last one.
LogOutcome(err) ==
    /\ outcomes' = Append(outcomes, [name |-> repos[idx].Name, ok |-> err = Nil])
    /\ idx' = idx + 1
    /\ pc' = IF idx = Len(repos) THEN "Done" ELSE "Migrating"

\* The target forge answers the create/migrate request; MigrateRepo returns
\* the matching error, or nil, to main.
ForgeAnswersMigrate ==
    /\ pc = "Migrating" /\ net = "pending"
    /\ \E status \in Statuses :
          /\ migrateErrs' = Append(migrateErrs, MigrateError(status))
          /\ LogOutcome(MigrateError(status))
    /\ net' = "idle"
    /\ UNCHANGED << config, remote, fatal, sourceClient, targetClient,
                    fetchCalls, fetchErr, page, acc, repos, requests,
                    migrateCalls >>

\* The migrate request's timeout fires: MigrateRepo returns a transient
\* error to main (spec.md 5).
MigrateTimeout ==
    /\ pc = "Migrating" /\ net = "stalled"
    /\ MigrateHasTimeout(targetClient)
    /\ migrateErrs' = Append(migrateErrs, "TransientError")
    /\ LogOutcome("TransientError")
    /\ net' = "idle"
    /\ UNCHANGED << config, remote, fatal, sourceClient, targetClient,
                    fetchCalls, fetchErr, page, acc, repos, requests,
                    migrateCalls >>

\* ---------------------------------------------------------- specifications

\* main before its first statement has run, nothing sent yet.
Start ==
    /\ pc = "Start"
    /\ fatal = Nil
    /\ sourceClient = Unset
    /\ targetClient = Unset
    /\ fetchCalls = 0
    /\ fetchErr = Nil
    /\ page = 0
    /\ acc = << >>
    /\ repos = << >>
    /\ idx = 1
    /\ net = "idle"
    /\ requests = << >>
    /\ migrateCalls = << >>
    /\ migrateErrs = << >>
    /\ outcomes = << >>

\* Any configuration, any source account of at most MaxRepos repositories.
Init ==
    /\ config \in Configs
    /\ remote \in Listings(MaxRepos)
    /\ Start

\* Configurations that reach FetchRepos, with accounts long enough to span
\* three pages.
PagedConfigs ==
    { c \in Configs : /\ c.SourceType \in {"github", "gitlab"}
                      /\ c.TargetType = "gitea"
                      /\ c.SourceToken = "tok" /\ c.TargetToken = "tok" }

InitPaged ==
    /\ config \in PagedConfigs
    /\ remote \in Listings(MaxPagedRepos)
    /\ Start

Next ==
    \/ ValidateConfigStep
    \/ GetSourceClient
    \/ GetTargetClient
    \/ FetchReposCall
    \/ ForgeAnswersList
    \/ FetchTransportError
    \/ ForgeAnswersListError
    \/ ForgeStalls
    \/ FetchTimeout
    \/ MigrateRepoCall
    \/ ForgeAnswersMigrate
    \/ MigrateTimeout

Spec == Init /\ [][Next]_vars

SpecPaged == InitPaged /\ [][Next]_vars

\* ------------------------------------------------------------------ claims

Terminated == pc \in {"Done", "Fatal"}

ConfigErrors ==
    { "Invalid configuration", "Unsupported source forge type",
      "Unsupported target forge type" }

ListRequests == SelectSeq(requests, LAMBDA r : r.op = "GET")

C1_Unresolvable ==
    \/ getForgeClient(config.SourceType) = Nil
    \/ getForgeClient(config.TargetType) = Nil

\* C1: a run whose SourceType or TargetType resolves to no adapter never
\* sends an HTTP request and never calls FetchRepos or MigrateRepo; it can
\* only move on towards, and stop in, a fatal configuration error.
C1_UnresolvedKindFatalBeforeNetwork ==
    C1_Unresolvable =>
        /\ requests = << >>
        /\ fetchCalls = 0
        /\ migrateCalls = << >>
        /\ pc \in {"Start", "Validated", "SourceResolved", "Fatal"}
        /\ pc = "Fatal" => fatal \in ConfigErrors
        /\ pc # "Fatal" => ENABLED Next

C1_Witness ==
    /\ pc = "Fatal"
    /\ fatal = "Unsupported target forge type"
    /\ sourceClient = "GitHubClient"
    /\ config.TargetType = "GitHub"
    /\ requests = << >>

\* C2: MigrateRepo is attempted once per fetched repository: never more
\* often than there are repositories, exactly Len(repos) times when the run
\* is Done, and a run that has started migrating never ends any other way
\* than Done.
C2_EveryRepoAttempted ==
    /\ Len(migrateCalls) <= Len(repos)
    /\ pc = "Done" => Len(migrateCalls) = Len(repos)
    /\ pc = "Fatal" => migrateCalls = << >>

C2_Witness ==
    /\ pc = "Done"
    /\ Len(repos) = 3
    /\ Len(migrateCalls) = 3
    /\ migrateErrs[1] # Nil
    /\ migrateErrs[2] = Nil
    /\ migrateErrs[3] # Nil

\* C3: the i-th MigrateRepo call is made on the i-th fetched repository.
C3_MigrationInFetchOrder ==
    /\ Len(migrateCalls) <= Len(repos)
    /\ \A i \in 1..Len(migrateCalls) : migrateCalls[i] = repos[i]

C3_Witness ==
    /\ pc = "Done"
    /\ Len(migrateCalls) = 3
    /\ repos = Decode(remote)
    /\ remote[1].name = "repoB"
    /\ remote[3].name = "repoA"

\* C4: FetchRepos is called at most once, exactly once in every run that
\* got past resolution, and when it returns an error the run is over with
\* "Failed to fetch repos": no MigrateRepo call, no outcome.
C4_FetchOnceAndFailureFatal ==
    /\ fetchCalls <= 1
    /\ pc \in {"Fetching", "Migrating", "Done"} => fetchCalls = 1
    /\ fetchErr # Nil =>
          /\ pc = "Fatal"
          /\ fatal = "Failed to fetch repos"
          /\ migrateCalls = << >>
          /\ outcomes = << >>

C4_Witness ==
    /\ fetchErr = "bad response"
    /\ pc = "Fatal"
    /\ fetchCalls = 1
    /\ remote # << >>

\* C5: at Done one outcome has been logged per fetched repository, in
\* order, under the repository's name, and it says success exactly when the
\* MigrateRepo call for that repository returned nil.
C5_OneOutcomePerRepo ==
    pc = "Done" =>
        /\ Len(outcomes) = Len(repos)
        /\ Len(migrateErrs) = Len(repos)
        /\ \A i \in 1..Len(repos) :
              /\ outcomes[i].name = repos[i].Name
              /\ outcomes[i].ok <=> migrateErrs[i] = Nil

C5_Witness ==
    /\ pc = "Done"
    /\ Len(repos) = 2
    /\ outcomes[1].ok
    /\ ~outcomes[2].ok
    /\ migrateErrs[2] = "ConflictError"

C7_InvalidRepoNeverSubmitted ==
    \A i \in 1..Len(migrateCalls) :
        migrateCalls[i].Name # "" /\ migrateCalls[i].CloneURL # ""

\* C8: by the time the run is Done, every MigrateRepo call on a well-formed
\* repository that failed with a transient error (HTTP 503, timeout) has
\* been followed by another attempt on the same repository.
C8_TransientFailureRetried ==
    pc = "Done" =>
        \A i \in 1..Len(migrateErrs) :
            ( /\ migrateErrs[i] = "TransientError"
              /\ migrateCalls[i].Name # ""
              /\ migrateCalls[i].CloneURL # "" ) =>
                \E j \in (i + 1)..Len(migrateCalls) :
                    migrateCalls[j] = migrateCalls[i]

\* C9: a run that has not terminated (Done or fatal exit) can always take
\* another step, also when a forge never answers: the pending call times
\* out.
C9_NoHang == Terminated \/ ENABLED Next

C10_Resolves(client, kind) ==
    /\ client = "GitHubClient" <=> kind = "github"
    /\ client = "GitLabClient" <=> kind = "gitlab"
    /\ client = "GiteaClient" <=> kind \in {"gitea", "forgejo"}
    /\ client = Nil <=> kind \notin {"github", "gitlab", "gitea", "forgejo"}

\* C10: once main has resolved a client, it is the GitHub adapter exactly
\* for "github", the GitLab adapter exactly for "gitlab", the Gitea adapter
\* exactly for "gitea" and "forgejo", and nil for every other string.
C10_ResolutionTable ==
    /\ sourceClient # Unset => C10_Resolves(sourceClient, config.SourceType)
    /\ targetClient # Unset => C10_Resolves(targetClient, config.TargetType)

C10_Witness ==
    /\ config.SourceType = "gitea" /\ sourceClient = "GiteaClient"
    /\ config.TargetType = "forgejo" /\ targetClient = "GiteaClient"

====
